---- MODULE Spec2Model ----
(***************************************************************************)
(* The HTTP middleware pipeline of titiler:                                *)
(*   titiler/core/middleware.py   CacheControlMiddleware,                  *)
(*                                TotalTimeMiddleware, LoggerMiddleware,   *)
(*                                LowerCaseQueryStringMiddleware,          *)
(*                                BlockVRTMiddleware                       *)
(*   titiler/application/main.py  the assembled application                *)
(*                                                                         *)
(* Text (paths, query strings, parameter values) is a sequence of          *)
(* one-character strings, so that lower-casing, substring search, regex    *)
(* matching and query-string parsing are computed character by character.  *)
(* Header values are comma-separated lists, kept as the sequence of their  *)
(* items: the empty sequence is the empty string.                          *)
(***************************************************************************)
EXTENDS Integers, Sequences, FiniteSets, TLC

VARIABLES
    \* the request scope
    scope_type,     \* scope["type"]
    method,         \* scope["method"]
    path,           \* scope["path"]
    query_string,   \* scope["query_string"], decoded
    raw_query,      \* the query string the client sent
    \* BlockVRTMiddleware.dispatch
    world,          \* what rasterio.open finds behind an identifier
    gpc,            \* position inside dispatch
    url_param,      \* the local variable url_param
    probed,         \* the identifiers handed to rasterio.open, in order
    handles,        \* dataset handles opened by dispatch and not yet closed
    built,          \* the Response objects dispatch constructed itself
    nextCalls,      \* how many times call_next was awaited
    inner,          \* the response call_next came back with
    response,       \* what dispatch returned
    other,          \* another request's coroutine on the same event loop
    \* the middleware stack and its configuration
    stages,         \* the middlewares, outermost first
    cachecontrol,   \* CacheControlMiddleware.cachecontrol
    cachecontrol_max_http_code,
    exclude_path,   \* CacheControlMiddleware.exclude_path
    logcfg,         \* LoggerMiddleware.querystrings and .headers
    \* one request going through the stack
    ppc,            \* where the request is
    depth,          \* how many middlewares have been called
    sendChain,      \* the middlewares whose send_wrapper is installed
    start_time,     \* start_time of each TotalTimeMiddleware call
    logged,         \* the records handed to logger.debug
    handlerCalls,   \* how many times the routed application was called
    handlerMsg,     \* the http.response.start the application sends
    msg,            \* the message being sent
    mpos,           \* the position in sendChain msg has reached
    sent,           \* the messages handed to the server's send
    trace           \* what happened to the request, in order

reqVars == <<scope_type, method, path, query_string, raw_query>>
guardVars == <<world, gpc, url_param, probed, handles, built, nextCalls, inner, response,
              other>>
cfgVars == <<stages, cachecontrol, cachecontrol_max_http_code, exclude_path, logcfg>>
pipeVars == <<ppc, depth, sendChain, start_time, logged, handlerCalls, handlerMsg,
              msg, mpos, sent, trace>>

\* no response yet
NoResponse == [status |-> 0, body |-> ""]

-----------------------------------------------------------------------------
(* Text *)

UpperLetters == <<"A","B","C","D","E","F","G","H","I","J","K","L","M",
                  "N","O","P","Q","R","S","T","U","V","W","X","Y","Z">>
LowerLetters == <<"a","b","c","d","e","f","g","h","i","j","k","l","m",
                  "n","o","p","q","r","s","t","u","v","w","x","y","z">>

\* str.lower() on one character
LowerChar(c) ==
    IF \E i \in 1..26 : UpperLetters[i] = c
    THEN LowerLetters[CHOOSE i \in 1..26 : UpperLetters[i] = c]
    ELSE c

\* str.lower()
Lower(s) == [i \in 1..Len(s) |-> LowerChar(s[i])]

\* Python's `t in s` for strings
Contains(s, t) ==
    \E i \in 1..(Len(s) - Len(t) + 1) : SubSeq(s, i, i + Len(t) - 1) = t

\* the position of the first occurrence of character c in s, 0 when absent
\* (str.find)
Find(s, c) ==
    IF \E i \in 1..Len(s) : s[i] = c
    THEN CHOOSE i \in 1..Len(s) : s[i] = c /\ \A j \in 1..(i - 1) : s[j] # c
    ELSE 0

\* str.split(c)
RECURSIVE Split(_, _)
Split(s, c) ==
    LET i == Find(s, c)
    IN  IF i = 0 THEN <<s>>
        ELSE <<SubSeq(s, 1, i - 1)>> \o Split(SubSeq(s, i + 1, Len(s)), c)

-----------------------------------------------------------------------------
(* request.query_params: starlette's QueryParams over                      *)
(* urllib.parse.parse_qsl(query_string, keep_blank_values=True).           *)

\* the %XX escapes the model decodes, with the character each stands for
HexEscapes == {<<"2", "E">>, <<"2", "e">>, <<"2", "6">>, <<"3", "D">>,
               <<"3", "d">>, <<"2", "5">>, <<"2", "B">>, <<"2", "b">>,
               <<"F", "F">>}

\* U+FFFD, the replacement character: what unquote (utf-8, errors="replace")
\* makes of a byte that is no utf-8, such as %FF
REPLACEMENT == "U+FFFD"

HexChar(h) ==
    CASE h \in {<<"2", "E">>, <<"2", "e">>} -> "."
      [] h = <<"2", "6">> -> "&"
      [] h \in {<<"3", "D">>, <<"3", "d">>} -> "="
      [] h = <<"2", "5">> -> "%"
      [] h \in {<<"2", "B">>, <<"2", "b">>} -> "+"
      [] h = <<"F", "F">> -> REPLACEMENT

\* urllib.parse.unquote after replace("+", " "): a valid %XX is decoded, a
\* stray % is kept
RECURSIVE Unquote(_)
Unquote(s) ==
    IF s = <<>> THEN <<>>
    ELSE IF s[1] = "%" /\ Len(s) >= 3 /\ SubSeq(s, 2, 3) \in HexEscapes
         THEN <<HexChar(SubSeq(s, 2, 3))>> \o Unquote(SubSeq(s, 4, Len(s)))
         ELSE <<IF s[1] = "+" THEN " " ELSE s[1]>> \o Unquote(Tail(s))

\* one name=value field of parse_qsl: split at the first "="
ParseField(f) ==
    LET i == Find(f, "=")
    IN  IF i = 0 THEN <<Unquote(f), <<>>>>
        ELSE <<Unquote(SubSeq(f, 1, i - 1)), Unquote(SubSeq(f, i + 1, Len(f)))>>

\* parse_qsl: the ordered (key, value) pairs; empty fields are skipped
ParseQS(qs) ==
    LET fields == SelectSeq(Split(qs, "&"), LAMBDA f : f # <<>>)
    IN  [i \in 1..Len(fields) |-> ParseField(fields[i])]

\* ImmutableMultiDict.get(key, default): the dict is built from the pairs in
\* order, so the last pair of a repeated key is the one kept
QueryGet(items, key, default) ==
    IF \E i \in 1..Len(items) : items[i][1] = key
    THEN items[CHOOSE i \in 1..Len(items) :
                   /\ items[i][1] = key
                   /\ \A j \in (i + 1)..Len(items) : items[j][1] # key][2]
    ELSE default

-----------------------------------------------------------------------------
(* Response messages and starlette's MutableHeaders(scope=message).        *)
(* message["headers"] is the list of (name, value) pairs, names in lower   *)
(* case as ASGI requires.                                                  *)

NoMessage == [type |-> "none", status |-> 0, headers |-> <<>>, body |-> ""]

StartMessage(status, headers) ==
    [type |-> "http.response.start", status |-> status, headers |-> headers,
     body |-> ""]

BodyMessage(body) ==
    [type |-> "http.response.body", status |-> 0, headers |-> <<>>, body |-> body]

\* a message of a transport that is not http
OtherMessage(type, body) ==
    [type |-> type, status |-> 0, headers |-> <<>>, body |-> body]

\* the scope type not looked at
IsHttp_Always(type) == TRUE

\* scope["type"] == "http" (lines 41, 81, 127, 158)
IsHttp(type) == type = "http"

\* one entry of the record of a request: a middleware was called ("call"),
\* called the application it wraps ("next") or raised ("raise"); the routed
\* application was called ("app"); a message was produced ("emit"), went
\* through a send_wrapper ("send"), or reached the server ("server")
Event(ev, stage, m) == [ev |-> ev, stage |-> stage, m |-> m]

\* key.lower() of the header names the middlewares use
LowerName(k) ==
    CASE k = "Cache-Control" -> "cache-control"
      [] k = "Server-Timing" -> "server-timing"
      [] OTHER -> k

Min(S) == CHOOSE x \in S : \A y \in S : x <= y

\* the positions of the header lines named key
HeaderIndexes(h, key) == {i \in 1..Len(h) : h[i][1] = LowerName(key)}

\* MutableHeaders.get(key): the value of the first line named key; nothing
\* is found (Python's None) when there is none
HeadersGet(h, key) ==
    IF HeaderIndexes(h, key) = {}
    THEN [found |-> FALSE, value |-> <<>>]
    ELSE [found |-> TRUE, value |-> h[Min(HeaderIndexes(h, key))][2]]

\* Python's truth value of what get returned: None and "" are false
Truthy(r) == r.found /\ r.value # <<>>

\* a header assignment that drops the other header lines
HeadersSet_Only(h, key, value) == <<<<LowerName(key), value>>>>

\* MutableHeaders.__setitem__: the first line named key takes the value and
\* the other lines named key are deleted; a new line is appended when there
\* is none
HeadersSet(h, key, value) ==
    LET idx == HeaderIndexes(h, key)
    IN  IF idx = {} THEN Append(h, <<LowerName(key), value>>)
        ELSE LET first == Min(idx)
                 keep == SelectSeq([i \in 1..Len(h) |-> i],
                                   LAMBDA i : i \notin idx \/ i = first)
             IN  [j \in 1..Len(keep) |->
                     IF keep[j] = first THEN <<LowerName(key), value>>
                     ELSE h[keep[j]]]

-----------------------------------------------------------------------------
(* CacheControlMiddleware *)

DefaultMaxHttpCode == 500

\* re.fullmatch in place of re.match
ReMatch_Full(pattern, s) ==
    /\ Len(s) = Len(pattern)
    /\ \A i \in 1..Len(pattern) : pattern[i] = "." \/ pattern[i] = s[i]

\* re.match(pattern, s) for a pattern of literal characters and "." (any
\* character): the pattern has to match at the start of s
ReMatch(pattern, s) ==
    /\ Len(s) >= Len(pattern)
    /\ \A i \in 1..Len(pattern) : pattern[i] = "." \/ pattern[i] = s[i]

\* lines 49-59: the conditions under which send_wrapper sets the header.
\* cachecontrol is <<>> for None as for "": both are false.
ShouldSetCacheControl(m) ==
    /\ cachecontrol # <<>>
    /\ ~Truthy(HeadersGet(m.headers, "Cache-Control"))
    /\ method \in {"HEAD", "GET"}
    /\ m.status < cachecontrol_max_http_code
    /\ ~\E pattern \in exclude_path : ReMatch(pattern, path)

\* lines 45-62: what send_wrapper hands to send
CacheControlSendWrapper(m) ==
    IF m.type = "http.response.start" /\ ShouldSetCacheControl(m)
    THEN [m EXCEPT !.headers = HeadersSet(@, "Cache-Control", cachecontrol)]
    ELSE m

-----------------------------------------------------------------------------
(* TotalTimeMiddleware.  time.time() is read in ticks of 0.002 ms; it is   *)
(* the wall clock, so a later reading may be smaller than an earlier one.  *)

MaxTime == 3
Times == 0..MaxTime

Abs(x) == IF x < 0 THEN -x ELSE x

\* round(process_time * 1000, 2) in hundredths of a millisecond: five ticks
\* make one hundredth, and no tick count falls on a tie
Round2(ticks) ==
    IF ticks < 0 THEN -((Abs(ticks) + 2) \div 5) ELSE (ticks + 2) \div 5

\* "{}".format of the rounded float: 0.0, 0.01, 0.1, 1.0, and -0.0 for a
\* negative time that rounds to zero
FormatMs(ticks) ==
    LET c == Abs(Round2(ticks))
        frac == c % 100
    IN  (IF ticks < 0 THEN "-" ELSE "")
        \o ToString(c \div 100) \o "."
        \o (IF frac % 10 = 0 THEN ToString(frac \div 10)
            ELSE IF frac < 10 THEN "0" \o ToString(frac)
            ELSE ToString(frac))

\* line 92
AppTime(start, now) == "total;dur=" \o FormatMs(now - start)

\* lines 87-97: what send_wrapper hands to send, the clock reading now
TotalTimeSendWrapper(m, start, now) ==
    IF m.type = "http.response.start"
    THEN LET timings == HeadersGet(m.headers, "Server-Timing")
         IN  [m EXCEPT !.headers =
                 HeadersSet(@, "Server-Timing",
                            IF Truthy(timings)
                            THEN Append(timings.value, AppTime(start, now))
                            ELSE <<AppTime(start, now)>>)]
    ELSE m

-----------------------------------------------------------------------------
(* LowerCaseQueryStringMiddleware *)

\* lines 163-165: query_string += k.lower() + "=" + v + "&" for each pair
RECURSIVE JoinLowered(_)
JoinLowered(items) ==
    IF items = <<>> THEN <<>>
    ELSE Lower(Head(items)[1]) \o <<"=">> \o Head(items)[2] \o <<"&">>
         \o JoinLowered(Tail(items))

\* lines 163-168: the rewritten scope["query_string"]; [:-1] drops the last
\* "&" and leaves the empty string empty
LowerCaseQuery(qs) ==
    LET joined == JoinLowered(ParseQS(qs))
    IN  IF joined = <<>> THEN <<>> ELSE SubSeq(joined, 1, Len(joined) - 1)

\* line 168: str.encode("latin-1") succeeds on the characters up to U+00FF
Latin1(s) == \A i \in 1..Len(s) : s[i] # REPLACEMENT

-----------------------------------------------------------------------------
(* The stack: each middleware's __call__ calls the next one, innermost the *)
(* routed application; a response message goes through the send_wrappers   *)
(* installed on the way in, innermost first.                               *)

\* a send_wrapper bound the wrong way round: around the server's send
Install_Outermost(chain, i) == <<i>> \o chain

\* await self.app(scope, receive, send_wrapper): the wrapper of middleware i
\* is what the applications inside i send to
Install(chain, i) == Append(chain, i)

\* what a middleware that calls the application it wraps adds to the record
Called(i) == <<Event("call", i, NoMessage), Event("next", i, NoMessage)>>

\* what a middleware that raises adds to the record
Raised(i) == <<Event("call", i, NoMessage), Event("raise", i, NoMessage)>>

Entering(kind) ==
    /\ ppc = "request"
    /\ depth < Len(stages)
    /\ stages[depth + 1] = kind

\* lines 39-43 and 64
CacheControlCall ==
    /\ Entering("CacheControl")
    /\ depth' = depth + 1
    /\ sendChain' = IF IsHttp(scope_type) THEN Install(sendChain, depth + 1)
                    ELSE sendChain
    /\ trace' = trace \o Called(depth + 1)
    /\ UNCHANGED <<ppc, start_time, logged, handlerCalls, handlerMsg, msg, mpos, sent>>
    /\ UNCHANGED <<reqVars, guardVars, cfgVars>>

\* lines 79-85 and 101
TotalTimeCall ==
    /\ Entering("TotalTime")
    /\ depth' = depth + 1
    /\ trace' = trace \o Called(depth + 1)
    /\ IF IsHttp(scope_type)
       THEN /\ sendChain' = Install(sendChain, depth + 1)
            /\ \E now \in Times : start_time' = [start_time EXCEPT ![depth + 1] = now]
       ELSE UNCHANGED <<sendChain, start_time>>
    /\ UNCHANGED <<ppc, logged, handlerCalls, handlerMsg, msg, mpos, sent>>
    /\ UNCHANGED <<reqVars, guardVars, cfgVars>>

\* lines 130-137: the records LoggerMiddleware hands to logger.debug
LogRecords ==
    <<"url">>
    \o (IF ParseQS(query_string) # <<>> /\ logcfg.querystrings
        THEN <<"qs">> ELSE <<>>)
    \o (IF logcfg.headers THEN <<"headers">> ELSE <<>>)

\* lines 125-139.  logger.debug runs the handlers and filters attached to
\* the logger; nothing in __call__ catches what they raise: record k + 1 is
\* the one whose emission raises, none when k is the number of records
LoggerCall ==
    /\ Entering("Logger")
    /\ depth' = depth + 1
    /\ IF IsHttp(scope_type)
       THEN \E k \in 0..Len(LogRecords) :
                /\ logged' = logged \o SubSeq(LogRecords, 1, k)
                /\ IF k = Len(LogRecords)
                   THEN /\ trace' = trace \o Called(depth + 1)
                        /\ UNCHANGED ppc
                   ELSE /\ trace' = trace \o Raised(depth + 1)
                        /\ ppc' = "raised"
       ELSE /\ trace' = trace \o Called(depth + 1)
            /\ UNCHANGED <<logged, ppc>>
    /\ UNCHANGED <<sendChain, start_time, handlerCalls, handlerMsg, msg, mpos, sent>>
    /\ UNCHANGED <<reqVars, guardVars, cfgVars>>

\* lines 156-170
LowerCaseQueryStringCall ==
    /\ Entering("LowerCaseQueryString")
    /\ depth' = depth + 1
    /\ IF IsHttp(scope_type) /\ ~Latin1(LowerCaseQuery(query_string))
       THEN \* line 168: encode raises UnicodeEncodeError
            /\ trace' = trace \o Raised(depth + 1)
            /\ ppc' = "raised"
            /\ UNCHANGED query_string
       ELSE /\ query_string' = IF IsHttp(scope_type)
                               THEN LowerCaseQuery(query_string)
                               ELSE query_string
            /\ trace' = trace \o Called(depth + 1)
            /\ UNCHANGED ppc
    /\ UNCHANGED <<scope_type, method, path, raw_query>>
    /\ UNCHANGED <<sendChain, start_time, logged, handlerCalls, handlerMsg, msg,
                   mpos, sent>>
    /\ UNCHANGED <<guardVars, cfgVars>>

\* CORSMiddleware and CompressionMiddleware (third-party) on a request that
\* is no CORS preflight: they call the next application; neither reads nor
\* writes Cache-Control or Server-Timing
ThirdPartyCall ==
    /\ ppc = "request"
    /\ depth < Len(stages)
    /\ stages[depth + 1] \in {"CORS", "Compression"}
    /\ depth' = depth + 1
    /\ trace' = trace \o Called(depth + 1)
    /\ UNCHANGED <<ppc, sendChain, start_time, logged, handlerCalls, handlerMsg, msg,
                   mpos, sent>>
    /\ UNCHANGED <<reqVars, guardVars, cfgVars>>

\* the routed application (the routers included in main.py) is called
HandlerCall ==
    /\ ppc = "request"
    /\ depth = Len(stages)
    /\ handlerCalls' = handlerCalls + 1
    /\ ppc' = "handler"
    /\ trace' = Append(trace, Event("app", Len(stages) + 1, NoMessage))
    /\ UNCHANGED <<depth, sendChain, start_time, logged, handlerMsg, msg, mpos, sent>>
    /\ UNCHANGED <<reqVars, guardVars, cfgVars>>

\* the application sends http.response.start to the send it was given
HandlerSendStart ==
    /\ ppc = "handler"
    /\ msg' = handlerMsg
    /\ mpos' = Len(sendChain)
    /\ ppc' = "send_start"
    /\ trace' = Append(trace, Event("emit", Len(stages) + 1, msg'))
    /\ UNCHANGED <<depth, sendChain, start_time, logged, handlerCalls, handlerMsg, sent>>
    /\ UNCHANGED <<reqVars, guardVars, cfgVars>>

\* the application sends http.response.body
HandlerSendBody ==
    /\ ppc = "body"
    /\ handlerCalls > 0
    /\ msg' = IF IsHttp(scope_type) THEN BodyMessage("tile")
              ELSE OtherMessage("websocket.send", "tile")
    /\ mpos' = Len(sendChain)
    /\ ppc' = "send_body"
    /\ trace' = Append(trace, Event("emit", Len(stages) + 1, msg'))
    /\ UNCHANGED <<depth, sendChain, start_time, logged, handlerCalls, handlerMsg, sent>>
    /\ UNCHANGED <<reqVars, guardVars, cfgVars>>

Sending(kind) ==
    /\ ppc \in {"send_start", "send_body"}
    /\ mpos > 0
    /\ stages[sendChain[mpos]] = kind

\* lines 45-62: CacheControlMiddleware's send_wrapper
CacheControlSend ==
    /\ Sending("CacheControl")
    /\ msg' = CacheControlSendWrapper(msg)
    /\ mpos' = mpos - 1
    /\ trace' = Append(trace, Event("send", sendChain[mpos], msg))
    /\ UNCHANGED <<ppc, depth, sendChain, start_time, logged, handlerCalls, handlerMsg,
                   sent>>
    /\ UNCHANGED <<reqVars, guardVars, cfgVars>>

\* lines 87-99: TotalTimeMiddleware's send_wrapper
TotalTimeSend ==
    /\ Sending("TotalTime")
    /\ \E now \in Times :
           msg' = TotalTimeSendWrapper(msg, start_time[sendChain[mpos]], now)
    /\ mpos' = mpos - 1
    /\ trace' = Append(trace, Event("send", sendChain[mpos], msg))
    /\ UNCHANGED <<ppc, depth, sendChain, start_time, logged, handlerCalls, handlerMsg,
                   sent>>
    /\ UNCHANGED <<reqVars, guardVars, cfgVars>>

\* the outermost send: the server takes the message
ServerSend ==
    /\ ppc \in {"send_start", "send_body"}
    /\ mpos = 0
    /\ sent' = Append(sent, msg)
    /\ ppc' = IF ppc = "send_start" THEN "body" ELSE "done"
    /\ trace' = Append(trace, Event("server", 0, msg))
    /\ UNCHANGED <<depth, sendChain, start_time, logged, handlerCalls, handlerMsg, msg,
                   mpos>>
    /\ UNCHANGED <<reqVars, guardVars, cfgVars>>

\* a request at the entry of the stack
PipelineStart ==
    /\ ppc = "request"
    /\ depth = 0
    /\ sendChain = <<>>
    /\ start_time = [i \in 1..Len(stages) |-> 0]
    /\ logged = <<>>
    /\ handlerCalls = 0
    /\ msg = NoMessage
    /\ mpos = 0
    /\ sent = <<>>
    /\ trace = <<>>

\* no stack: dispatch is run on its own
PipelineUnused ==
    /\ stages = <<>>
    /\ cachecontrol = <<>>
    /\ cachecontrol_max_http_code = DefaultMaxHttpCode
    /\ exclude_path = {}
    /\ logcfg = [querystrings |-> FALSE, headers |-> FALSE]
    /\ ppc = "unused"
    /\ handlerMsg = NoMessage
    /\ depth = 0
    /\ sendChain = <<>>
    /\ start_time = <<>>
    /\ logged = <<>>
    /\ handlerCalls = 0
    /\ msg = NoMessage
    /\ mpos = 0
    /\ sent = <<>>
    /\ trace = <<>>

\* dispatch is not run
GuardUnused ==
    /\ world = <<>>
    /\ gpc = "unused"
    /\ url_param = <<>>
    /\ probed = <<>>
    /\ handles = 0
    /\ built = <<>>
    /\ nextCalls = 0
    /\ inner = NoResponse
    /\ response = NoResponse
    /\ other = "none"

-----------------------------------------------------------------------------
(* BlockVRTMiddleware *)

VRT_EXT == <<".", "v", "r", "t">>
KEY_URL == <<"u", "r", "l">>

MSG_PATH == "VRT files are not supported."
MSG_PARAM == "VRT files are not supported in URL parameters."

Response(content, status_code) == [status |-> status_code, body |-> content]

\* the path check without the lower-casing
PathHasVrt_CaseSensitive(p) == Contains(p, VRT_EXT)

\* line 177: ".vrt" in request.scope["path"].lower()
PathHasVrt(p) == Contains(Lower(p), VRT_EXT)

\* the value of the `url` query parameter as the request carries it
UrlValue(qs) == QueryGet(ParseQS(qs), KEY_URL, <<>>)

\* the parameter read without the lower-casing
UrlParam_CaseSensitive(qs) == UrlValue(qs)

\* line 184: request.query_params.get("url", "").lower()
UrlParam(qs) == Lower(UrlValue(qs))

\* line 185: ".vrt" in url_param
ParamHasVrt(u) == Contains(u, VRT_EXT)

\* the driver compared in the wrong letter case
DriverIsVrt_LowerCase(d) == d = "vrt"

\* line 193: src.driver == "VRT"
DriverIsVrt(d) == d = "VRT"

\* rasterio.open(url_param, sharing=False): the dataset's driver, or "fail"
\* when the open raises
Open(w, id) == w[id]

\* an open error that is not caught leaves dispatch as an exception
OnOpenError_Propagate == "raised"

\* lines 198-200: except Exception: pass, and dispatch goes on to call_next
OnOpenError == "call_next"

\* line 177-181
DispatchPathCheck ==
    /\ gpc = "path_check"
    /\ IF PathHasVrt(path)
       THEN /\ built' = Append(built, Response(MSG_PATH, 403))
            /\ response' = Response(MSG_PATH, 403)
            /\ gpc' = "done"
       ELSE /\ gpc' = "param_check"
            /\ UNCHANGED <<built, response>>
    /\ UNCHANGED <<world, url_param, probed, handles, nextCalls, inner, other>>
    /\ UNCHANGED <<reqVars, cfgVars, pipeVars>>

\* lines 184-189
DispatchParamCheck ==
    /\ gpc = "param_check"
    /\ url_param' = UrlParam(query_string)
    /\ IF ParamHasVrt(url_param')
       THEN /\ built' = Append(built, Response(MSG_PARAM, 403))
            /\ response' = Response(MSG_PARAM, 403)
            /\ gpc' = "done"
       ELSE /\ gpc' = "probe_open"
            /\ UNCHANGED <<built, response>>
    /\ UNCHANGED <<world, probed, handles, nextCalls, inner, other>>
    /\ UNCHANGED <<reqVars, cfgVars, pipeVars>>

\* what rasterio.open comes back with: it raises, or the dataset is open
OpenOutcome ==
    IF Open(world, url_param) = "fail"
    THEN /\ gpc' = OnOpenError
         /\ UNCHANGED handles
    ELSE /\ gpc' = "probe_driver"
         /\ handles' = handles + 1

\* lines 191-192: with rasterio.open(url_param, sharing=False) as src
DispatchProbeOpen ==
    /\ gpc = "probe_open"
    /\ probed' = Append(probed, url_param)
    /\ OpenOutcome
    /\ UNCHANGED <<world, url_param, built, nextCalls, inner, response, other>>
    /\ UNCHANGED <<reqVars, cfgVars, pipeVars>>

\* a with block that leaves the dataset open
WithExit_KeepOpen(h) == h

\* the exit of the with block closes the dataset, however the block is left
WithExit(h) == h - 1

\* lines 193-197, and the exit of the with block: on the return, on the
\* fall-through, and on an exception raised by src.driver ("broken"), which
\* except Exception then swallows
DispatchProbeDriver ==
    /\ gpc = "probe_driver"
    /\ handles' = WithExit(handles)
    /\ IF Open(world, url_param) = "broken"
       THEN /\ gpc' = OnOpenError
            /\ UNCHANGED <<built, response>>
       ELSE IF DriverIsVrt(Open(world, url_param))
       THEN /\ built' = Append(built, Response(MSG_PARAM, 403))
            /\ response' = Response(MSG_PARAM, 403)
            /\ gpc' = "done"
       ELSE /\ gpc' = "call_next"
            /\ UNCHANGED <<built, response>>
    /\ UNCHANGED <<world, url_param, probed, nextCalls, inner, other>>
    /\ UNCHANGED <<reqVars, cfgVars, pipeVars>>

\* the responses the continuation may come back with
InnerResponses ==
    {Response("tile", 200), Response("not found", 404),
     Response("forbidden", 403), Response("error", 500)}

\* line 203: response = await call_next(request)
DispatchCallNext ==
    /\ gpc = "call_next"
    /\ nextCalls' = nextCalls + 1
    /\ \E r \in InnerResponses : inner' = r
    /\ gpc' = "return"
    /\ UNCHANGED <<world, url_param, probed, handles, built, response, other>>
    /\ UNCHANGED <<reqVars, cfgVars, pipeVars>>

\* line 204: return response
DispatchReturn ==
    /\ gpc = "return"
    /\ response' = inner
    /\ gpc' = "done"
    /\ UNCHANGED <<world, url_param, probed, handles, built, nextCalls, inner, other>>
    /\ UNCHANGED <<reqVars, cfgVars, pipeVars>>

-----------------------------------------------------------------------------
(* The requests the guard is run on *)

MaxPad == 1

PadChars == {"a", "A"}
Pads == UNION {[1..k -> PadChars] : k \in 0..MaxPad}

\* ".vrt" in each of its letter casings
Casings ==
    {<<".", v, r, t>> : v \in {"v", "V"}, r \in {"r", "R"}, t \in {"t", "T"}}

\* no token, the casings, pieces that are not the token, and the token with
\* its dot percent-encoded
Cores ==
    {<<>>} \cup Casings \cup
    {<<".", "v", "r">>, <<"v", "r", "t">>, <<".", "v", "a", "r", "t">>,
     <<"%", "2", "E", "v", "r", "t">>}

Values == {p \o c : p \in Pads, c \in Cores}

Paths == {<<"/">> \o c \o s : c \in Cores, s \in {<<>>, <<"/", "a">>}}

Field(k, v) == k \o <<"=">> \o v

Keys == {KEY_URL, <<"U", "r", "l">>, <<"b">>}

LastFields == {Field(k, v) : k \in Keys, v \in Values}

FirstFields ==
    {Field(KEY_URL, <<"a">>), Field(KEY_URL, <<"a">> \o VRT_EXT),
     Field(<<"b">>, <<"A">>)}

Queries ==
    {<<>>} \cup LastFields \cup {f \o <<"&">> \o l : f \in FirstFields, l \in LastFields}

Outcomes == {"fail", "VRT", "GTiff"}

InitGuard ==
    /\ scope_type = "http"
    /\ method = "GET"
    /\ path \in Paths
    /\ query_string \in Queries
    /\ raw_query = query_string
    /\ world \in [{UrlValue(query_string), UrlParam(query_string)} -> Outcomes]
    /\ gpc = "path_check"
    /\ url_param = <<>>
    /\ probed = <<>>
    /\ handles = 0
    /\ built = <<>>
    /\ nextCalls = 0
    /\ inner = NoResponse
    /\ response = NoResponse
    /\ other = "none"
    /\ PipelineUnused

NextGuard ==
    \/ DispatchPathCheck
    \/ DispatchParamCheck
    \/ DispatchProbeOpen
    \/ DispatchProbeDriver
    \/ DispatchCallNext
    \/ DispatchReturn

vars == <<reqVars, guardVars, cfgVars, pipeVars>>

SpecGuard == InitGuard /\ [][NextGuard]_vars

-----------------------------------------------------------------------------
(* CacheControlMiddleware around an application *)

HEALTHZ == <<"/", "h", "e", "a", "l", "t", "h", "z">>

CachePaths ==
    {HEALTHZ, HEALTHZ \o <<"z">>, <<"/", "v", "1">> \o HEALTHZ,
     <<"/", "h", "e", "a", "l", "t", "h">>, <<"/">>, <<"/", "a", "b">>}

ExcludeSets == {{}, {HEALTHZ}, {HEALTHZ, <<"/", "a", ".">>}}

CacheControlValues == {<<>>, <<"public", "max-age=3600">>}

Methods == {"GET", "HEAD", "POST"}

CONTENT_TYPE == <<"content-type", <<"image/png">>>>
CC(value) == <<"cache-control", value>>
ST(value) == <<"server-timing", value>>

\* the header lists the application may send
CacheHandlerHeaders ==
    {<<>>,
     <<CONTENT_TYPE>>,
     <<CC(<<"no-store">>)>>,
     <<CC(<<>>)>>,
     <<CONTENT_TYPE, CC(<<>>), CC(<<"no-store">>)>>,
     <<CC(<<"no-store">>), CC(<<"private">>)>>,
     <<CC(<<"public", "max-age=3600">>), CONTENT_TYPE>>}

InitCache ==
    /\ scope_type = "http"
    /\ method \in Methods
    /\ path \in CachePaths
    /\ query_string \in {<<>>, Field(KEY_URL, <<"a">>)}
    /\ raw_query = query_string
    /\ stages = <<"CacheControl">>
    /\ cachecontrol \in CacheControlValues
    /\ cachecontrol_max_http_code \in {DefaultMaxHttpCode, 400}
    /\ exclude_path \in ExcludeSets
    /\ logcfg = [querystrings |-> FALSE, headers |-> FALSE]
    /\ handlerMsg \in {StartMessage(st, h) :
                          st \in {200, 399, 400, 404, 499, 500, 503},
                          h \in CacheHandlerHeaders}
    /\ PipelineStart
    /\ GuardUnused

NextCache ==
    \/ CacheControlCall
    \/ HandlerCall
    \/ HandlerSendStart
    \/ CacheControlSend
    \/ ServerSend
    \/ HandlerSendBody

SpecCache == InitCache /\ [][NextCache]_vars

-----------------------------------------------------------------------------
(* Nested TotalTimeMiddlewares around an application *)

MaxNest == 2

TimingHandlerHeaders ==
    {<<>>,
     <<CONTENT_TYPE>>,
     <<ST(<<>>)>>,
     <<ST(<<"db;dur=1">>)>>,
     <<ST(<<"db;dur=1", "cache;dur=2">>), CONTENT_TYPE>>,
     <<ST(<<"db;dur=1">>), CONTENT_TYPE, ST(<<"cache;dur=2">>)>>}

InitTiming ==
    /\ scope_type = "http"
    /\ method = "GET"
    /\ path = <<"/">>
    /\ query_string = <<>>
    /\ raw_query = query_string
    /\ stages \in {[i \in 1..n |-> "TotalTime"] : n \in 1..MaxNest}
    /\ cachecontrol = <<>>
    /\ cachecontrol_max_http_code = DefaultMaxHttpCode
    /\ exclude_path = {}
    /\ logcfg = [querystrings |-> FALSE, headers |-> FALSE]
    /\ handlerMsg \in {StartMessage(st, h) :
                          st \in {200, 500}, h \in TimingHandlerHeaders}
    /\ PipelineStart
    /\ GuardUnused

NextTiming ==
    \/ TotalTimeCall
    \/ HandlerCall
    \/ HandlerSendStart
    \/ TotalTimeSend
    \/ ServerSend
    \/ HandlerSendBody

SpecTiming == InitTiming /\ [][NextTiming]_vars

-----------------------------------------------------------------------------
(* The application assembled in main.py *)

\* Starlette.add_middleware: user_middleware.insert(0, ...), so the
\* middleware added last is the outermost
AddMiddleware(stack, m) == <<m>> \o stack

\* main.py lines 140-173
AppStack(cors_origins, debug, lower_case_query_parameters) ==
    LET s1 == IF cors_origins THEN AddMiddleware(<<>>, "CORS") ELSE <<>>
        s2 == AddMiddleware(s1, "Compression")
        s3 == AddMiddleware(s2, "CacheControl")
        s4 == IF debug
              THEN AddMiddleware(AddMiddleware(s3, "Logger"), "TotalTime")
              ELSE s3
    IN  IF lower_case_query_parameters
        THEN AddMiddleware(s4, "LowerCaseQueryString")
        ELSE s4

\* api_settings.path_prefix
GlobalPrefixes == {<<>>, <<"/", "v", "1">>}

AppPaths == {<<"/">>, <<"/", "a">> \o VRT_EXT, HEALTHZ}

AppQueries ==
    {<<>>, Field(KEY_URL, <<"a">>), Field(KEY_URL, <<"a">> \o VRT_EXT),
     Field(<<"U", "r", "l">>, <<"A", ".", "V", "R", "T">>)}

InitApp ==
    /\ scope_type = "http"
    /\ method \in {"GET", "POST"}
    /\ path \in AppPaths
    /\ query_string \in AppQueries
    /\ raw_query = query_string
    /\ \E cors_origins \in BOOLEAN, debug \in BOOLEAN,
          lower_case_query_parameters \in BOOLEAN :
           stages = AppStack(cors_origins, debug, lower_case_query_parameters)
    /\ cachecontrol \in CacheControlValues
    /\ cachecontrol_max_http_code = DefaultMaxHttpCode
    /\ \E global_prefix \in GlobalPrefixes : exclude_path = {global_prefix \o HEALTHZ}
    /\ logcfg = [querystrings |-> TRUE, headers |-> TRUE]
    /\ handlerMsg \in {StartMessage(200, <<>>),
                       StartMessage(200, <<CC(<<"no-store">>)>>),
                       StartMessage(500, <<>>)}
    /\ PipelineStart
    /\ GuardUnused

NextApp ==
    \/ ThirdPartyCall
    \/ CacheControlCall
    \/ LoggerCall
    \/ TotalTimeCall
    \/ LowerCaseQueryStringCall
    \/ HandlerCall
    \/ HandlerSendStart
    \/ CacheControlSend
    \/ TotalTimeSend
    \/ ServerSend
    \/ HandlerSendBody

SpecApp == InitApp /\ [][NextApp]_vars

-----------------------------------------------------------------------------
(* BlockVRTMiddleware as one middleware of a stack.  BaseHTTPMiddleware    *)
(* calls dispatch for an http scope and sends the response dispatch        *)
(* returns to the send it was given; call_next runs the wrapped            *)
(* application and comes back with its status and headers, its body        *)
(* streamed.                                                               *)

\* the headers of Response(content=..., status_code=403)
RejectionHeaders(content) ==
    <<<<"content-length",
        <<IF content = MSG_PATH THEN "28" ELSE "46">>>>>>

\* BaseHTTPMiddleware.__call__ up to the call of dispatch
BlockVRTCall ==
    /\ Entering("BlockVRT")
    /\ depth' = depth + 1
    /\ IF IsHttp(scope_type)
       THEN /\ gpc = "idle"
            /\ gpc' = "path_check"
            /\ ppc' = "dispatch"
            /\ trace' = Append(trace, Event("call", depth + 1, NoMessage))
       ELSE /\ trace' = trace \o Called(depth + 1)
            /\ UNCHANGED <<gpc, ppc>>
    /\ UNCHANGED <<sendChain, start_time, logged, handlerCalls, handlerMsg, msg, mpos,
                   sent>>
    /\ UNCHANGED <<world, url_param, probed, handles, built, nextCalls, inner, response,
                   other>>
    /\ UNCHANGED <<reqVars, cfgVars>>

\* line 203 in a stack: call_next starts the wrapped application
DispatchCallNextApp ==
    /\ ppc = "dispatch"
    /\ gpc = "call_next"
    /\ nextCalls' = nextCalls + 1
    /\ gpc' = "awaiting"
    /\ ppc' = "request"
    /\ sendChain' = Install(sendChain, depth)
    /\ trace' = Append(trace, Event("next", depth, NoMessage))
    /\ UNCHANGED <<depth, start_time, logged, handlerCalls, handlerMsg, msg, mpos, sent>>
    /\ UNCHANGED <<world, url_param, probed, handles, built, inner, response, other>>
    /\ UNCHANGED <<reqVars, cfgVars>>

\* lines 203-204 in a stack: call_next comes back at the application's
\* http.response.start, dispatch returns that response, and its messages go
\* on to the send BlockVRTMiddleware was given
BlockVRTSend ==
    /\ Sending("BlockVRT")
    /\ mpos' = mpos - 1
    /\ trace' = Append(trace, Event("send", sendChain[mpos], msg))
    /\ IF msg.type = "http.response.start"
       THEN /\ inner' = Response("stream", msg.status)
            /\ response' = inner'
            /\ gpc' = "done"
       ELSE UNCHANGED <<inner, response, gpc>>
    /\ UNCHANGED <<ppc, depth, sendChain, start_time, logged, handlerCalls, handlerMsg,
                   msg, sent>>
    /\ UNCHANGED <<world, url_param, probed, handles, built, nextCalls, other>>
    /\ UNCHANGED <<reqVars, cfgVars>>

\* the 403 dispatch returned without call_next: its http.response.start
RejectionSendStart ==
    /\ ppc = "dispatch"
    /\ gpc = "done"
    /\ msg' = StartMessage(response.status, RejectionHeaders(response.body))
    /\ mpos' = Len(sendChain)
    /\ ppc' = "send_start"
    /\ trace' = Append(trace, Event("emit", depth, msg'))
    /\ UNCHANGED <<depth, sendChain, start_time, logged, handlerCalls, handlerMsg, sent>>
    /\ UNCHANGED <<reqVars, guardVars, cfgVars>>

\* its http.response.body
RejectionSendBody ==
    /\ ppc = "body"
    /\ handlerCalls = 0
    /\ gpc = "done"
    /\ msg' = BodyMessage(response.body)
    /\ mpos' = Len(sendChain)
    /\ ppc' = "send_body"
    /\ trace' = Append(trace, Event("emit", depth, msg'))
    /\ UNCHANGED <<depth, sendChain, start_time, logged, handlerCalls, handlerMsg, sent>>
    /\ UNCHANGED <<reqVars, guardVars, cfgVars>>

MaxStack == 3

StageKinds == {"CacheControl", "TotalTime", "Logger", "LowerCaseQueryString", "BlockVRT"}

\* the stacks of up to MaxStack middlewares, each kind at most once
Stacks ==
    UNION {{st \in [1..n -> StageKinds] :
               \A i \in 1..n : \A j \in 1..n : st[i] = st[j] => i = j} :
           n \in 1..MaxStack}

StackPaths == {<<"/">>, <<"/", "a">> \o VRT_EXT}

StackQueries ==
    {<<>>, Field(<<"U", "R", "L">>, <<"A">>), Field(<<"b">>, <<"%", "F", "F">>)}

\* the identifiers dispatch may probe on these requests
StackIds == {<<>>, <<"a">>}

StackHandlerMessages ==
    {StartMessage(200, <<CONTENT_TYPE>>),
     StartMessage(500, <<ST(<<"db;dur=1">>), CONTENT_TYPE>>)}

InitStack ==
    /\ scope_type \in {"http", "websocket"}
    /\ method = "GET"
    /\ path \in StackPaths
    /\ query_string \in StackQueries
    /\ raw_query = query_string
    /\ stages \in Stacks
    /\ cachecontrol = <<"no-cache">>
    /\ cachecontrol_max_http_code = DefaultMaxHttpCode
    /\ exclude_path = {}
    /\ logcfg = [querystrings |-> TRUE, headers |-> TRUE]
    /\ handlerMsg \in IF IsHttp(scope_type) THEN StackHandlerMessages
                      ELSE {OtherMessage("websocket.accept", "")}
    /\ PipelineStart
    /\ world \in {[id \in StackIds |-> o] : o \in Outcomes}
    /\ gpc = "idle"
    /\ url_param = <<>>
    /\ probed = <<>>
    /\ handles = 0
    /\ built = <<>>
    /\ nextCalls = 0
    /\ inner = NoResponse
    /\ response = NoResponse
    /\ other = "none"

NextStack ==
    \/ CacheControlCall
    \/ TotalTimeCall
    \/ LoggerCall
    \/ LowerCaseQueryStringCall
    \/ BlockVRTCall
    \/ DispatchPathCheck
    \/ DispatchParamCheck
    \/ DispatchProbeOpen
    \/ DispatchProbeDriver
    \/ DispatchCallNextApp
    \/ HandlerCall
    \/ HandlerSendStart
    \/ HandlerSendBody
    \/ RejectionSendStart
    \/ RejectionSendBody
    \/ CacheControlSend
    \/ TotalTimeSend
    \/ BlockVRTSend
    \/ ServerSend

SpecStack == InitStack /\ [][NextStack]_vars

-----------------------------------------------------------------------------
(* Properties of BlockVRTMiddleware.dispatch, checked under SpecGuard *)

\* text s holds a dot followed by the letters v, r, t, each in either case
HasVrtAnyCasing(s) ==
    \E i \in 1..(Len(s) - 3) :
        /\ s[i] = "."
        /\ s[i + 1] \in {"v", "V"}
        /\ s[i + 2] \in {"r", "R"}
        /\ s[i + 3] \in {"t", "T"}

\* neither textual check of dispatch matches the request
TextuallyClean ==
    /\ ~HasVrtAnyCasing(path)
    /\ ~HasVrtAnyCasing(UrlValue(query_string))

\* C1: a request whose path holds ".vrt" in any letter casing is answered
\* 403 "VRT files are not supported.", the continuation is never invoked
\* and nothing is probed, whatever the url parameter holds.
C1_PathCheckRejects ==
    HasVrtAnyCasing(path) =>
        /\ nextCalls = 0
        /\ probed = <<>>
        /\ gpc \in {"path_check", "done"}
        /\ gpc = "done" => /\ response = Response(MSG_PATH, 403)
                           /\ built = <<Response(MSG_PATH, 403)>>

C1_Witness ==
    /\ gpc = "done"
    /\ path = <<"/", ".", "V", "r", "T">>
    /\ HasVrtAnyCasing(UrlValue(query_string))
    /\ response = Response(MSG_PATH, 403)

\* C2: a request whose path is free of ".vrt" and whose url parameter holds
\* ".vrt" in any letter casing is answered 403 "VRT files are not supported
\* in URL parameters." and the continuation is never invoked.
C2_ParamCheckRejects ==
    (~HasVrtAnyCasing(path) /\ HasVrtAnyCasing(UrlValue(query_string))) =>
        /\ nextCalls = 0
        /\ gpc \in {"path_check", "param_check", "done"}
        /\ gpc = "done" => /\ response = Response(MSG_PARAM, 403)
                           /\ built = <<Response(MSG_PARAM, 403)>>

C2_Witness ==
    /\ gpc = "done"
    /\ ~HasVrtAnyCasing(path)
    /\ UrlValue(query_string) = <<"A", ".", "V", "R", "t">>
    /\ response = Response(MSG_PARAM, 403)

\* C3: when neither textual check matches and the probe-open succeeds, the
\* request is rejected (403, parameter message) exactly when the driver is
\* VRT; for any other driver the continuation is invoked exactly once and
\* its response is returned as it is.
C3_ProbeDecides ==
    (TextuallyClean /\ gpc = "done"
        /\ Open(world, Lower(UrlValue(query_string))) # "fail") =>
        IF Open(world, Lower(UrlValue(query_string))) = "VRT"
        THEN /\ response = Response(MSG_PARAM, 403)
             /\ built = <<Response(MSG_PARAM, 403)>>
             /\ nextCalls = 0
        ELSE /\ nextCalls = 1
             /\ response = inner
             /\ inner \in InnerResponses
             /\ built = <<>>

C3_Witness ==
    /\ gpc = "done"
    /\ TextuallyClean
    /\ Open(world, Lower(UrlValue(query_string))) = "GTiff"
    /\ nextCalls = 1
    /\ response = Response("tile", 200)

\* C4: when both textual checks pass and the probe-open fails, the failure
\* is suppressed: no exception leaves dispatch, dispatch builds no response
\* of its own (no 403, no 5xx), and the continuation is invoked, its
\* response being the one returned.
C4_ProbeFailureAllowed ==
    (TextuallyClean /\ Open(world, Lower(UrlValue(query_string))) = "fail") =>
        /\ gpc # "raised"
        /\ built = <<>>
        /\ handles = 0
        /\ gpc \in {"return", "done"} => nextCalls = 1
        /\ gpc = "done" => response = inner /\ inner \in InnerResponses

C4_Witness ==
    /\ gpc = "done"
    /\ TextuallyClean
    /\ UrlValue(query_string) = <<>>
    /\ probed = <<<<>>>>
    /\ Open(world, <<>>) = "fail"
    /\ nextCalls = 1

\* C5: every request let through to the continuation names, in its url
\* parameter as the handler will open it, a resource that is not of driver
\* VRT.
C5_NoVrtReachesHandler ==
    nextCalls > 0 => Open(world, UrlValue(query_string)) # "VRT"

-----------------------------------------------------------------------------
(* Properties of the assembled application, checked under SpecApp *)

\* C6: in the application built in main.py no request whose path or url
\* parameter holds ".vrt" reaches the routed application, whatever the
\* debug and lower-case-query settings.
C6_HandlerBehindGuard ==
    handlerCalls > 0 =>
        /\ ~HasVrtAnyCasing(path)
        /\ ~HasVrtAnyCasing(UrlValue(query_string))

-----------------------------------------------------------------------------
(* Properties of CacheControlMiddleware, checked under SpecCache *)

\* the Cache-Control lines of a header list, in order
CacheControlLines(h) == SelectSeq(h, LAMBDA l : l[1] = "cache-control")

\* the response has started: sent[1] is what the stage handed on
StartSent == Len(sent) >= 1

\* text s starts with text p
StartsWith(s, p) == Len(s) >= Len(p) /\ SubSeq(s, 1, Len(p)) = p

\* the conditions of the injection rule other than the exclusion set
OtherwiseEligible ==
    /\ cachecontrol # <<>>
    /\ CacheControlLines(handlerMsg.headers) = <<>>
    /\ method \in {"GET", "HEAD"}
    /\ handlerMsg.status < cachecontrol_max_http_code

\* C7: with a value configured, the stage sets Cache-Control to it on the
\* response-started event if and only if the response carries no
\* Cache-Control header, the method is GET or HEAD, the status is below the
\* threshold and the path matches no pattern of the exclusion set.
C7_InjectionRule ==
    (StartSent /\ cachecontrol # <<>>) =>
        ((/\ sent[1].headers # handlerMsg.headers
          /\ CacheControlLines(sent[1].headers) = <<CC(cachecontrol)>>)
         <=>
         (/\ OtherwiseEligible
          /\ ~\E pattern \in exclude_path : ReMatch(pattern, path)))

\* C8: when the response from the application already carries a
\* Cache-Control header (any value, the empty one included, any number of
\* lines), its Cache-Control lines leave the stage as they came.
C8_FirstWriterWins ==
    (StartSent /\ CacheControlLines(handlerMsg.headers) # <<>>) =>
        CacheControlLines(sent[1].headers) = CacheControlLines(handlerMsg.headers)

\* C9: with the exclusion entry /healthz, a path that starts with /healthz
\* (/healthz itself, /healthzz) gets no Cache-Control header from the stage,
\* whatever the query string; a path that does not start with it
\* (/v1/healthz) gets the configured value when the other conditions hold.
C9_ExclusionIsPrefixMatch ==
    (StartSent /\ exclude_path = {HEALTHZ}) =>
        /\ StartsWith(path, HEALTHZ) => sent[1] = handlerMsg
        /\ (~StartsWith(path, HEALTHZ) /\ OtherwiseEligible) =>
               CacheControlLines(sent[1].headers) = <<CC(cachecontrol)>>

C9_Witness ==
    /\ StartSent
    /\ exclude_path = {HEALTHZ}
    /\ path = HEALTHZ \o <<"z">>
    /\ query_string # <<>>
    /\ OtherwiseEligible
    /\ CacheControlLines(sent[1].headers) = <<>>

-----------------------------------------------------------------------------
(* Properties of TotalTimeMiddleware, checked under SpecTiming *)

\* the entries of all Server-Timing lines of a header list, in order
RECURSIVE TimingEntries(_)
TimingEntries(h) ==
    IF h = <<>> THEN <<>>
    ELSE (IF Head(h)[1] = "server-timing" THEN Head(h)[2] ELSE <<>>)
         \o TimingEntries(Tail(h))

Range(f) == {f[i] : i \in DOMAIN f}

\* C10: each timing stage appends exactly one entry to Server-Timing and
\* every entry the response carried before, in whatever Server-Timing line,
\* is still there afterwards: behind N nested stages the header holds the
\* application's entries and N more.
C10_TimingAccumulates ==
    StartSent =>
        /\ Range(TimingEntries(handlerMsg.headers))
               \subseteq Range(TimingEntries(sent[1].headers))
        /\ Len(TimingEntries(sent[1].headers))
               = Len(TimingEntries(handlerMsg.headers)) + Len(stages)

\* the entries a timing stage writes for a duration that is not negative
\* (a negative time that rounds to zero, written -0.0, is counted as zero)
NonNegativeTotals ==
    {AppTime(p[1], p[2]) :
        p \in {q \in Times \X Times : Round2(q[2] - q[1]) >= 0}}

\* C11: the dur value a timing stage appends is never negative, also when
\* the wall clock is stepped backwards between the entry of the request
\* and the response-started event.
C11_DurNonNegative ==
    StartSent =>
        \A e \in Range(TimingEntries(sent[1].headers))
                     \ Range(TimingEntries(handlerMsg.headers)) :
            e \in NonNegativeTotals

-----------------------------------------------------------------------------
(* LowerCaseQueryStringMiddleware around an application *)

\* values with percent-encoded "&", "=", "+", "%", a percent-encoded "%"
\* in front of two hex digits, a byte that is no utf-8, a "+", and none
NormValues ==
    {<<"A">>, <<>>, <<"a", "+", "b">>,
     <<"a", "%", "2", "6", "b">>, <<"a", "%", "3", "D", "b">>,
     <<"a", "%", "2", "B", "b">>, <<"a", "%", "2", "5", "b">>,
     <<"a", "%", "2", "5", "2", "E">>, <<"%", "F", "F">>}

NormFields == {Field(k, v) : k \in {<<"U", "r", "l">>, <<"b">>}, v \in NormValues}

NormQueries ==
    {<<>>} \cup NormFields \cup
    {f \o <<"&">> \o g :
        f \in {Field(<<"B">>, <<"A">>), Field(<<"b">>, <<"a">>)}, g \in NormFields}

InitQuery ==
    /\ scope_type = "http"
    /\ method = "GET"
    /\ path = <<"/">>
    /\ query_string \in NormQueries
    /\ raw_query = query_string
    /\ stages = <<"LowerCaseQueryString">>
    /\ cachecontrol = <<>>
    /\ cachecontrol_max_http_code = DefaultMaxHttpCode
    /\ exclude_path = {}
    /\ logcfg = [querystrings |-> FALSE, headers |-> FALSE]
    /\ handlerMsg = StartMessage(200, <<CONTENT_TYPE>>)
    /\ PipelineStart
    /\ GuardUnused

NextQuery ==
    \/ LowerCaseQueryStringCall
    \/ HandlerCall
    \/ HandlerSendStart
    \/ ServerSend
    \/ HandlerSendBody

SpecQuery == InitQuery /\ [][NextQuery]_vars

-----------------------------------------------------------------------------
(* Properties of LowerCaseQueryStringMiddleware, checked under SpecQuery *)

\* the pairs with every key lower-cased and every value as it is
LoweredKeys(pairs) ==
    [i \in 1..Len(pairs) |-> <<Lower(pairs[i][1]), pairs[i][2]>>]

\* C12: for every raw query string the middleware completes without error,
\* and the query string it leaves in the scope parses to the pairs of the
\* query string the client sent, in their order, with every key lower-cased
\* and every value unchanged; an empty query string stays empty.
C12_QueryRoundTrip ==
    depth >= 1 =>
        /\ ppc # "raised"
        /\ ParseQS(query_string) = LoweredKeys(ParseQS(raw_query))
        /\ raw_query = <<>> => query_string = <<>>

-----------------------------------------------------------------------------
(* Properties of a stack of the middlewares, checked under SpecStack *)

\* the positions in the record of the entries of one kind
Positions(ev) == {k \in 1..Len(trace) : trace[k].ev = ev}

\* the entries of one kind, in order
Entries(ev) == SelectSeq(trace, LAMBDA x : x.ev = ev)

\* the last message produced before position k
LastEmit(k) ==
    CHOOSE e \in Positions("emit") :
        e < k /\ \A f \in Positions("emit") : f < k => f <= e

\* the middlewares whose send_wrapper handled a message between positions
\* e and k, in the order they did
WrappersBetween(e, k) ==
    LET sends == SelectSeq(SubSeq(trace, e + 1, k - 1), LAMBDA x : x.ev = "send")
    IN  [i \in 1..Len(sends) |-> sends[i].stage]

RECURSIVE Descending(_)
Descending(S) ==
    IF S = {} THEN <<>>
    ELSE LET m == CHOOSE x \in S : \A y \in S : y <= x
         IN  <<m>> \o Descending(S \ {m})

\* the middlewares that stand between the applications they wrap and the
\* send they were given
Interposes(i) ==
    IsHttp(scope_type) /\ stages[i] \in {"CacheControl", "TotalTime", "BlockVRT"}

\* C13: the middlewares are entered outermost first; every message that
\* reaches the server went through exactly the interposing middlewares
\* outside the one that produced it, innermost first; CacheControlMiddleware
\* sees the status of the http.response.start produced inside it, the 403
\* of BlockVRTMiddleware included.
C13_PipelineOrder ==
    /\ Entries("call") = [i \in 1..depth |-> Event("call", i, NoMessage)]
    /\ \A k \in Positions("server") :
           LET e == LastEmit(k)
           IN  /\ WrappersBetween(e, k)
                      = Descending({i \in 1..(trace[e].stage - 1) : Interposes(i)})
               /\ \A j \in (e + 1)..(k - 1) :
                      (trace[j].ev = "send" /\ trace[e].m.type = "http.response.start")
                          => trace[j].m.status = trace[e].m.status

\* a 403 of BlockVRTMiddleware has reached the server through two
\* middlewares outside it
C13_Witness ==
    /\ handlerCalls = 0
    /\ Len(sent) = 2
    /\ sent[1].status = 403
    /\ Len(sendChain) = 2

\* how many entries of one kind a middleware has in the record
Count(ev, i) == Cardinality({k \in Positions(ev) : trace[k].stage = i})

\* the middlewares that are to call the application they wrap in any case
PassThroughKinds == {"CacheControl", "TotalTime", "Logger", "LowerCaseQueryString"}

\* C14: CacheControlMiddleware, TotalTimeMiddleware, LoggerMiddleware and
\* LowerCaseQueryStringMiddleware, once called, call the application they
\* wrap exactly once and produce no response of their own;
\* BlockVRTMiddleware calls it at most once.
C14_ShortCircuitPolicy ==
    \A i \in 1..depth :
        /\ stages[i] \in PassThroughKinds =>
               /\ Count("next", i) = 1
               /\ Count("emit", i) = 0
        /\ stages[i] = "BlockVRT" => Count("next", i) <= 1

\* C18: LoggerMiddleware changes neither the scope nor a response message,
\* and what logger.debug raises does not leave it: the application it wraps
\* is called all the same.
C18_LoggerFailSafe ==
    \A i \in 1..depth :
        stages[i] = "Logger" =>
            /\ Count("send", i) = 0
            /\ (i = 1 /\ depth = 1) => query_string = raw_query
            /\ Count("raise", i) = 0
            /\ Count("next", i) = 1

\* the header lines that are neither Cache-Control nor Server-Timing
OtherHeaders(h) ==
    SelectSeq(h, LAMBDA l : l[1] \notin {"cache-control", "server-timing"})

\* what the send_wrapper that ran at position k of the record handed on
HandedOn(k) == IF k < Len(trace) THEN trace[k + 1].m ELSE msg

\* C19: the send_wrappers of CacheControlMiddleware and TotalTimeMiddleware
\* hand every message they receive on, once and in the order received; an
\* http.response.start keeps its status and its header lines other than
\* Cache-Control and Server-Timing, a body message is handed on as it is.
C19_EventForwarding ==
    /\ \A k \in Positions("send") :
           stages[trace[k].stage] \in {"CacheControl", "TotalTime"} =>
               /\ k < Len(trace) => trace[k + 1].ev \in {"send", "server"}
               /\ HandedOn(k).type = trace[k].m.type
               /\ HandedOn(k).status = trace[k].m.status
               /\ HandedOn(k).body = trace[k].m.body
               /\ OtherHeaders(HandedOn(k).headers) = OtherHeaders(trace[k].m.headers)
               /\ trace[k].m.type = "http.response.body" =>
                      HandedOn(k) = trace[k].m
    /\ \A i \in 1..depth :
           (stages[i] \in {"CacheControl", "TotalTime"} /\ IsHttp(scope_type)) =>
               LET received == SelectSeq(trace, LAMBDA x : x.ev = "send" /\ x.stage = i)
                   produced == SelectSeq(trace, LAMBDA x : x.ev = "emit" /\ x.stage > i)
               IN  /\ Len(received) <= Len(produced)
                   /\ Len(received) >= Len(produced) - 1
                   /\ \A n \in 1..Len(received) :
                          /\ received[n].m.type = produced[n].m.type
                          /\ received[n].m.body = produced[n].m.body

\* the application's two messages have reached the server through both
\* send_wrappers
C19_Witness ==
    /\ handlerCalls = 1
    /\ Len(sent) = 2
    /\ \E i \in 1..Len(sendChain) : stages[sendChain[i]] = "CacheControl"
    /\ \E i \in 1..Len(sendChain) : stages[sendChain[i]] = "TotalTime"
    /\ Len(handlerMsg.headers) = 2

\* the messages that reached the server
Delivered == [k \in 1..Len(Entries("server")) |-> Entries("server")[k].m]

\* the messages the application produced
Produced == [k \in 1..Len(Entries("emit")) |-> Entries("emit")[k].m]

\* C20: on a scope that is not http, each middleware calls the application
\* it wraps exactly once and hands it the send it was given; no header and
\* no query string is changed, nothing is logged and nothing raised; the
\* messages of the application reach the server as produced.
C20_NonHttpUntouched ==
    scope_type # "http" =>
        /\ sendChain = <<>>
        /\ Positions("send") = {}
        /\ Positions("raise") = {}
        /\ logged = <<>>
        /\ query_string = raw_query
        /\ \A i \in 1..depth : Count("next", i) = 1 /\ Count("emit", i) = 0
        /\ Len(Delivered) <= Len(Produced)
        /\ \A k \in 1..Len(Delivered) : Delivered[k] = Produced[k]

\* a websocket scope went through three middlewares and its messages
\* reached the server
C20_Witness ==
    /\ scope_type # "http"
    /\ depth = 3
    /\ handlerCalls = 1
    /\ Len(sent) = 2
    /\ \E i \in 1..3 : stages[i] = "LowerCaseQueryString"
    /\ raw_query = Field(<<"U", "R", "L">>, <<"A">>)

-----------------------------------------------------------------------------
(* dispatch on the event loop, next to another request.  A coroutine keeps *)
(* the thread of the event loop from one await to the next; rasterio.open  *)
(* is an ordinary call, made on that thread.                               *)

\* line 192: rasterio.open is called
DispatchProbeEnter ==
    /\ gpc = "probe_open"
    /\ probed' = Append(probed, url_param)
    /\ gpc' = "probe_wait"
    /\ UNCHANGED <<world, url_param, handles, built, nextCalls, inner, response, other>>
    /\ UNCHANGED <<reqVars, cfgVars, pipeVars>>

\* line 192: rasterio.open comes back, unless the resource never answers
\* ("hang")
OpenReturns ==
    /\ gpc = "probe_wait"
    /\ Open(world, url_param) # "hang"
    /\ OpenOutcome
    /\ UNCHANGED <<world, url_param, probed, built, nextCalls, inner, response, other>>
    /\ UNCHANGED <<reqVars, cfgVars, pipeVars>>

\* line 203: the request is cancelled while dispatch awaits call_next, the
\* only await of dispatch
DispatchCancelled ==
    /\ gpc = "call_next"
    /\ nextCalls' = nextCalls + 1
    /\ gpc' = "cancelled"
    /\ UNCHANGED <<world, url_param, probed, handles, built, inner, response, other>>
    /\ UNCHANGED <<reqVars, cfgVars, pipeVars>>

\* dispatch has the thread of the event loop: lines 177-197 hold no await,
\* and line 204 follows the await of line 203
HoldsLoop(g) ==
    g \in {"path_check", "param_check", "probe_open", "probe_wait", "probe_driver",
           "return"}

\* the event loop runs the other request's coroutine to its end
OtherStep ==
    /\ other = "ready"
    /\ ~HoldsLoop(gpc)
    /\ other' = "done"
    /\ UNCHANGED <<world, gpc, url_param, probed, handles, built, nextCalls, inner,
                   response>>
    /\ UNCHANGED <<reqVars, cfgVars, pipeVars>>

LoopOutcomes == Outcomes \cup {"broken", "hang"}

LoopQueries ==
    {<<>>, Field(KEY_URL, <<"a">>), Field(KEY_URL, <<"A">> \o VRT_EXT),
     Field(<<"U", "r", "l">>, <<"a">>), Field(KEY_URL, <<"A">>),
     Field(KEY_URL, <<"b">>) \o <<"&">> \o Field(KEY_URL, <<"a">>)}

InitLoop ==
    /\ scope_type = "http"
    /\ method = "GET"
    /\ path \in StackPaths
    /\ query_string \in LoopQueries
    /\ raw_query = query_string
    /\ world \in [{UrlParam(query_string)} -> LoopOutcomes]
    /\ gpc = "path_check"
    /\ url_param = <<>>
    /\ probed = <<>>
    /\ handles = 0
    /\ built = <<>>
    /\ nextCalls = 0
    /\ inner = NoResponse
    /\ response = NoResponse
    /\ other = "ready"
    /\ PipelineUnused

NextLoop ==
    \/ DispatchPathCheck
    \/ DispatchParamCheck
    \/ DispatchProbeEnter
    \/ OpenReturns
    \/ DispatchProbeDriver
    \/ DispatchCallNext
    \/ DispatchCancelled
    \/ DispatchReturn
    \/ OtherStep

SpecLoop == InitLoop /\ [][NextLoop]_vars

\* the event loop goes on running whatever can run
SpecLoopFair == SpecLoop /\ WF_vars(NextLoop)

-----------------------------------------------------------------------------
(* Properties of the probe, checked under SpecLoop and SpecLoopFair *)

\* C15: while dispatch is inside rasterio.open, another request in flight
\* can take its steps.
C15_ProbeDoesNotBlock ==
    (gpc = "probe_wait" /\ other = "ready") => ENABLED OtherStep

\* C16: every request that enters dispatch is in the end rejected with 403
\* or handed to call_next, also when rasterio.open never comes back.
C16_ProbeBounded ==
    <>((gpc = "done" /\ response.status = 403) \/ nextCalls > 0)

\* C17: once dispatch is about to await call_next, awaits it, has returned
\* or was cancelled, no dataset the probe opened is still open; this on the
\* rejection for a VRT driver, on the pass-through for another driver, on
\* an error raised while the driver is read, and on cancellation.
C17_NoLeakedHandle ==
    gpc \in {"call_next", "return", "done", "cancelled", "raised"} => handles = 0

\* the probe opened a dataset, reading its driver raised, and the request
\* was cancelled at call_next
C17_Witness ==
    /\ gpc = "cancelled"
    /\ Len(probed) = 1
    /\ Open(world, url_param) = "broken"
    /\ handles = 0

====
